---- MODULE Spec2Model ----
(***************************************************************************)
(* A model of parse_bhash_opreturn.py: the compact-size integer decoder    *)
(* parse_varint, the transaction walker extract_vout_scripts, the BHASH    *)
(* record decoder parse_bhash_from_script and the scan loop of main.       *)
(*                                                                         *)
(* The program works on hex STRINGS, two characters per byte.  A string is *)
(* a sequence of one-character strings over the alphabet                   *)
(*   "0".."9", "a".."f"   the lowercase hex digits,                        *)
(*   "z"                  a character that is no hex digit,                *)
(*   "-"                  the sign character int(s, 16) accepts.           *)
(* Offsets count characters, as in the source.                             *)
(***************************************************************************)
EXTENDS Integers, Sequences, FiniteSets, TLC

VARIABLES
    tx,          \* description of the transaction tx_hex was serialized from
    tx_hex,      \* main: the transaction hex string
    w,           \* extract_vout_scripts: its locals and its position
    pc,          \* main: its position
    scripts,     \* main: the list extract_vout_scripts returned
    idx,         \* main: number of scripts the scan loop has decoded
    found,       \* main: found
    result,      \* main: the last result of parse_bhash_from_script
    vin,         \* description of the varint hex_str was built from
    hex_str,     \* parse_varint: argument
    offset,      \* parse_varint: argument
    ret,         \* parse_varint: <<>>, then <<what the call returned>>
    sin,         \* description of the script script_hex was built from
    script_hex,  \* parse_bhash_from_script: argument
    decoded      \* parse_bhash_from_script: <<>>, then <<what it returned>>

vars == <<tx, tx_hex, w, pc, scripts, idx, found, result,
          vin, hex_str, offset, ret, sin, script_hex, decoded>>

mainVars == <<tx, tx_hex, w, pc, scripts, idx, found, result>>
varintVars == <<vin, hex_str, offset, ret>>
decodeVars == <<sin, script_hex, decoded>>

----------------------------------------------------------------------------
(* Python built-ins the program uses.                                      *)

hex_chars == <<"0", "1", "2", "3", "4", "5", "6", "7",
               "8", "9", "a", "b", "c", "d", "e", "f">>

IsHexDigit(c) == \E v \in 1..16 : hex_chars[v] = c

HexVal(c) == (CHOOSE v \in 1..16 : hex_chars[v] = c) - 1

\* s[lo:hi] of Python: out-of-range bounds are clipped, negative ones count
\* from the end, and an empty range gives the empty string.
PySlice(s, lo, hi) ==
    LET n == Len(s)
        a == IF lo < 0 THEN (IF lo + n < 0 THEN 0 ELSE lo + n)
                       ELSE (IF lo > n THEN n ELSE lo)
        b == IF hi < 0 THEN (IF hi + n < 0 THEN 0 ELSE hi + n)
                       ELSE (IF hi > n THEN n ELSE hi)
    IN  IF a >= b THEN <<>> ELSE SubSeq(s, a + 1, b)

\* int(s, 16) on a string of at most two characters: one or two hex digits,
\* or a sign and one digit; anything else (the empty string too) raises
\* ValueError (ok = FALSE).
int16(s) ==
    IF Len(s) = 1 /\ IsHexDigit(s[1])
        THEN [ok |-> TRUE, val |-> HexVal(s[1])]
    ELSE IF Len(s) = 2 /\ IsHexDigit(s[1]) /\ IsHexDigit(s[2])
        THEN [ok |-> TRUE, val |-> 16 * HexVal(s[1]) + HexVal(s[2])]
    ELSE IF Len(s) = 2 /\ s[1] = "-" /\ IsHexDigit(s[2])
        THEN [ok |-> TRUE, val |-> 0 - HexVal(s[2])]
    ELSE [ok |-> FALSE, val |-> 0]

\* bytes.fromhex(s): pairs of hex digits; an odd length or any other
\* character raises ValueError (ok = FALSE).
fromhex(s) ==
    IF Len(s) % 2 = 0 /\ \A k \in 1..Len(s) : IsHexDigit(s[k])
        THEN [ok |-> TRUE,
              bytes |-> [k \in 1..(Len(s) \div 2) |->
                            16 * HexVal(s[2 * k - 1]) + HexVal(s[2 * k])]]
        ELSE [ok |-> FALSE, bytes |-> <<>>]

RECURSIVE from_bytes_little(_)
from_bytes_little(bs) ==
    IF bs = <<>> THEN 0 ELSE bs[1] + 256 * from_bytes_little(Tail(bs))

RECURSIVE from_bytes_big(_)
from_bytes_big(bs) ==
    IF bs = <<>> THEN 0
    ELSE 256 * from_bytes_big(SubSeq(bs, 1, Len(bs) - 1)) + bs[Len(bs)]

----------------------------------------------------------------------------
(* parse_varint                                                            *)

VarintRaise == [ok |-> FALSE, val |-> 0, offset |-> 0]

\* parse_varint with the one-byte case taken for 0xFD too (first <= 0xFD).
parse_varint_le_fd(hs, off) ==
    LET first == int16(PySlice(hs, off, off + 2))
        o == off + 2
        n == IF first.val = 253 THEN 4 ELSE IF first.val = 254 THEN 8 ELSE 16
        b == fromhex(PySlice(hs, o, o + n))
    IN  IF ~first.ok THEN VarintRaise
        ELSE IF first.val <= 253
            THEN [ok |-> TRUE, val |-> first.val, offset |-> o]
        ELSE IF ~b.ok THEN VarintRaise
        ELSE [ok |-> TRUE, val |-> from_bytes_little(b.bytes), offset |-> o + n]

parse_varint(hs, off) ==
    LET first == int16(PySlice(hs, off, off + 2))
        o == off + 2
        n == IF first.val = 253 THEN 4 ELSE IF first.val = 254 THEN 8 ELSE 16
        b == fromhex(PySlice(hs, o, o + n))
    IN  IF ~first.ok THEN VarintRaise
        ELSE IF first.val < 253
            THEN [ok |-> TRUE, val |-> first.val, offset |-> o]
        ELSE IF ~b.ok THEN VarintRaise
        ELSE [ok |-> TRUE, val |-> from_bytes_little(b.bytes), offset |-> o + n]

----------------------------------------------------------------------------
(* extract_vout_scripts, one step per statement.  The record holds the     *)
(* function's locals; i, o, wi and it count the iterations its four loops  *)
(* have started.                                                           *)

InitWalk ==
    [pc |-> "version", pos |-> 0, is_segwit |-> FALSE, input_count |-> 0,
     output_count |-> 0, script_len |-> 0, witness_count |-> 0,
     item_len |-> 0, scripts |-> <<>>, i |-> 0, o |-> 0, wi |-> 0, it |-> 0]

Raised(s) == [s EXCEPT !.pc = "raised"]

\* for _ in range(input_count), line 71
InputsNext(s) ==
    IF s.i < s.input_count THEN [s EXCEPT !.i = @ + 1, !.pc = "in_outpoint"]
    ELSE [s EXCEPT !.pc = "output_count"]

\* for _ in range(input_count), line 92, then return scripts
WitnessNext(s) ==
    IF s.wi < s.input_count THEN [s EXCEPT !.wi = @ + 1, !.pc = "wit_count"]
    ELSE [s EXCEPT !.pc = "returned"]

\* for _ in range(output_count), line 83, then if is_segwit, line 91
OutputsNext(s) ==
    IF s.o < s.output_count THEN [s EXCEPT !.o = @ + 1, !.pc = "out_value"]
    ELSE IF s.is_segwit THEN WitnessNext(s)
    ELSE [s EXCEPT !.pc = "returned"]

\* for __ in range(witness_count), line 94
ItemsNext(s) ==
    IF s.it < s.witness_count THEN [s EXCEPT !.it = @ + 1, !.pc = "wit_item_len"]
    ELSE WitnessNext(s)

StepVersion(data, s) == [s EXCEPT !.pos = @ + 8, !.pc = "marker"]

StepMarker(data, s) ==
    IF /\ PySlice(data, s.pos, s.pos + 2) = <<"0", "0">>
       /\ PySlice(data, s.pos + 2, s.pos + 4) = <<"0", "1">>
        THEN [s EXCEPT !.is_segwit = TRUE, !.pos = @ + 4, !.pc = "input_count"]
        ELSE [s EXCEPT !.pc = "input_count"]

StepInputCount(data, s) ==
    LET r == parse_varint(data, s.pos)
    IN  IF ~r.ok THEN Raised(s)
        ELSE InputsNext([s EXCEPT !.input_count = r.val, !.pos = r.offset])

StepInOutpoint(data, s) == [s EXCEPT !.pos = @ + 64 + 8, !.pc = "in_script_len"]

StepInScriptLen(data, s) ==
    LET r == parse_varint(data, s.pos)
    IN  IF ~r.ok THEN Raised(s)
        ELSE [s EXCEPT !.script_len = r.val, !.pos = r.offset, !.pc = "in_script"]

StepInScript(data, s) == [s EXCEPT !.pos = @ + s.script_len * 2, !.pc = "in_sequence"]

StepInSequence(data, s) == InputsNext([s EXCEPT !.pos = @ + 8])

StepOutputCount(data, s) ==
    LET r == parse_varint(data, s.pos)
    IN  IF ~r.ok THEN Raised(s)
        ELSE OutputsNext([s EXCEPT !.output_count = r.val, !.pos = r.offset,
                                   !.scripts = <<>>])

StepOutValue(data, s) == [s EXCEPT !.pos = @ + 16, !.pc = "out_script_len"]

StepOutScriptLen(data, s) ==
    LET r == parse_varint(data, s.pos)
    IN  IF ~r.ok THEN Raised(s)
        ELSE [s EXCEPT !.script_len = r.val, !.pos = r.offset, !.pc = "out_script"]

\* the capture with the length in bytes taken for a length in characters
StepOutScript_bytes(data, s) ==
    OutputsNext([s EXCEPT
        !.scripts = Append(@, PySlice(data, s.pos, s.pos + s.script_len)),
        !.pos = @ + s.script_len * 2])

StepOutScript(data, s) ==
    OutputsNext([s EXCEPT
        !.scripts = Append(@, PySlice(data, s.pos, s.pos + s.script_len * 2)),
        !.pos = @ + s.script_len * 2])

StepWitCount(data, s) ==
    LET r == parse_varint(data, s.pos)
    IN  IF ~r.ok THEN Raised(s)
        ELSE ItemsNext([s EXCEPT !.witness_count = r.val, !.pos = r.offset,
                                 !.it = 0])

StepWitItemLen(data, s) ==
    LET r == parse_varint(data, s.pos)
    IN  IF ~r.ok THEN Raised(s)
        ELSE [s EXCEPT !.item_len = r.val, !.pos = r.offset, !.pc = "wit_item"]

\* the item skipped with its length in bytes taken for one in characters
StepWitItem_bytes(data, s) == ItemsNext([s EXCEPT !.pos = @ + s.item_len])

StepWitItem(data, s) == ItemsNext([s EXCEPT !.pos = @ + s.item_len * 2])

WalkStep(data, s) ==
    CASE s.pc = "version"        -> StepVersion(data, s)
      [] s.pc = "marker"         -> StepMarker(data, s)
      [] s.pc = "input_count"    -> StepInputCount(data, s)
      [] s.pc = "in_outpoint"    -> StepInOutpoint(data, s)
      [] s.pc = "in_script_len"  -> StepInScriptLen(data, s)
      [] s.pc = "in_script"      -> StepInScript(data, s)
      [] s.pc = "in_sequence"    -> StepInSequence(data, s)
      [] s.pc = "output_count"   -> StepOutputCount(data, s)
      [] s.pc = "out_value"      -> StepOutValue(data, s)
      [] s.pc = "out_script_len" -> StepOutScriptLen(data, s)
      [] s.pc = "out_script"     -> StepOutScript(data, s)
      [] s.pc = "wit_count"      -> StepWitCount(data, s)
      [] s.pc = "wit_item_len"   -> StepWitItemLen(data, s)
      [] s.pc = "wit_item"       -> StepWitItem(data, s)
      [] OTHER                   -> s

RECURSIVE RunWalk(_, _)
RunWalk(data, s) ==
    IF s.pc \in {"returned", "raised"} THEN s ELSE RunWalk(data, WalkStep(data, s))

\* The whole call: the list returned, or the exception.
extract_vout_scripts(data) ==
    LET s == RunWalk(data, InitWalk)
    IN  [ok |-> s.pc = "returned",
         scripts |-> IF s.pc = "returned" THEN s.scripts ELSE <<>>]

----------------------------------------------------------------------------
(* The transactions main is run on.                                        *)

MaxIn == 2       \* inputs of a generated transaction
MaxOut == 2      \* outputs of a generated transaction

HexByte(b) == <<hex_chars[(b \div 16) + 1], hex_chars[(b % 16) + 1]>>

RECURSIVE HexOf(_)
HexOf(bs) == IF bs = <<>> THEN <<>> ELSE HexByte(bs[1]) \o HexOf(Tail(bs))

RECURSIVE Repeat(_, _)
Repeat(s, n) == IF n <= 0 THEN <<>> ELSE s \o Repeat(s, n - 1)

RECURSIVE Concat(_)
Concat(ss) == IF ss = <<>> THEN <<>> ELSE ss[1] \o Concat(Tail(ss))

\* The compact-size encoding of n < 0xFD: in one byte, or in the three-byte
\* 0xFD form.
VarintHex(n, fd) ==
    IF fd THEN <<"f", "d">> \o HexByte(n % 256) \o HexByte(n \div 256)
    ELSE HexByte(n)

\* 6a 28 91 02 00000064 0002 0a00 0000 ... : the scenario of the
\* docstring's format with content type 2, height 100, asset 2, one bet.
BhashScript ==
    HexOf(<<106, 40, 145, 2, 0, 0, 0, 100, 0, 2, 10, 0>>) \o Repeat(<<"0", "0">>, 30)

OtherScript == HexOf(<<118, 169>>)

\* An OP_RETURN push of one byte whose two characters are no hex digits.
BadCharScript == <<"6", "a", "0", "1", "z", "z">>

Scripts == {BhashScript, OtherScript, BadCharScript, <<>>}

RECURSIVE SeqsUpTo(_, _)
SeqsUpTo(S, n) ==
    IF n = 0 THEN {<<>>}
    ELSE LET shorter == SeqsUpTo(S, n - 1)
         IN  shorter \cup {Append(q, x) : q \in {r \in shorter : Len(r) = n - 1}, x \in S}

Sigs == {<<>>, HexOf(<<81, 82>>)}

Stacks == {<<>>, <<HexOf(<<171>>)>>, <<HexOf(<<1, 2>>), <<>>>>}

SerInput(sig) ==
    Repeat(<<"1", "1">>, 32) \o Repeat(<<"0", "0">>, 4)
        \o VarintHex(Len(sig) \div 2, FALSE) \o sig \o Repeat(<<"f", "f">>, 4)

SerOutput(script, fd) ==
    Repeat(<<"0", "0">>, 8) \o VarintHex(Len(script) \div 2, fd) \o script

SerWitness(stack) ==
    VarintHex(Len(stack), FALSE)
        \o Concat([k \in 1..Len(stack) |->
                      VarintHex(Len(stack[k]) \div 2, FALSE) \o stack[k]])

\* The serialization of a transaction: legacy, or with the segwit marker,
\* flag and one witness stack per input; version 1, locktime 0.
Serialize(t) ==
    HexOf(<<1, 0, 0, 0>>)
        \o (IF t.segwit THEN <<"0", "0", "0", "1">> ELSE <<>>)
        \o VarintHex(t.nin, FALSE) \o Repeat(SerInput(t.sig), t.nin)
        \o VarintHex(Len(t.outs), FALSE)
        \o Concat([k \in 1..Len(t.outs) |-> SerOutput(t.outs[k], t.fd)])
        \o (IF t.segwit THEN Repeat(SerWitness(t.stack), t.nin) ELSE <<>>)
        \o Repeat(<<"0", "0">>, 4)

\* Well-formed transactions: nin inputs with the same scriptSig (and, with
\* segwit, the same witness stack), the outputs' scripts in order.
WellFormed ==
    { [kind |-> "tx", segwit |-> sw, nin |-> n, sig |-> sg, outs |-> os,
       fd |-> f, stack |-> st, cut |-> 0] :
        sw \in BOOLEAN, n \in 0..MaxIn, sg \in Sigs,
        os \in SeqsUpTo(Scripts, MaxOut), f \in BOOLEAN, st \in Stacks }

Canonical(t) ==
    /\ (~t.segwit \/ t.nin = 0) => t.stack = <<>>
    /\ t.nin = 0 => t.sig = <<>>
    /\ t.outs = <<>> => ~t.fd

\* One input, one output: every proper prefix of the serialization.
CutBases ==
    { t \in WellFormed : /\ Canonical(t) /\ t.nin = 1 /\ t.sig = <<>> /\ ~t.fd
                         /\ t.outs = <<OtherScript>>
                         /\ t.segwit => t.stack = <<HexOf(<<171>>)>> }

Truncated ==
    UNION { { [t EXCEPT !.kind = "cut", !.cut = c] :
                c \in 1..(Len(Serialize(t)) - 1) } : t \in CutBases }

\* Version 1, no input, two outputs, the first one's script length written
\* "-f"; nothing follows the second output's script.
SignedLength ==
    HexOf(<<1, 0, 0, 0, 0, 2>>) \o Repeat(<<"0", "0">>, 8) \o <<"-", "f">>
        \o Repeat(<<"0", "0">>, 8) \o HexOf(<<2, 118, 169>>)

Raw ==
    { [kind |-> "raw", segwit |-> FALSE, nin |-> 0, sig |-> <<>>, outs |-> <<>>,
       fd |-> FALSE, stack |-> <<>>, cut |-> 0] }

TxInputs == {t \in WellFormed : Canonical(t)} \cup Truncated \cup Raw

TxHexOf(t) ==
    IF t.kind = "raw" THEN SignedLength
    ELSE SubSeq(Serialize(t), 1, Len(Serialize(t)) - t.cut)

----------------------------------------------------------------------------
(* parse_bhash_from_script                                                 *)

None == [kind |-> "none"]
DecodeRaise == [kind |-> "raise"]

\* bet_data: 16 little-endian 16-bit values of the 32 bytes
BetData(bet_data_raw) ==
    [k \in 1..16 |-> from_bytes_little(SubSeq(bet_data_raw, 2 * k - 1, 2 * k))]

\* bet_dict, in insertion order: a pair <<character, amount>> per entry
\* bet_dict with the test amount >= 0
RECURSIVE BetDictFrom_ge(_, _)
BetDictFrom_ge(bet_data, k) ==
    IF k > Len(bet_data) THEN <<>>
    ELSE (IF bet_data[k] >= 0 THEN <<<<hex_chars[k], bet_data[k]>>>> ELSE <<>>)
            \o BetDictFrom_ge(bet_data, k + 1)

RECURSIVE BetDictFrom(_, _)
BetDictFrom(bet_data, k) ==
    IF k > Len(bet_data) THEN <<>>
    ELSE (IF bet_data[k] > 0 THEN <<<<hex_chars[k], bet_data[k]>>>> ELSE <<>>)
            \o BetDictFrom(bet_data, k + 1)

BetDict(bet_data) == BetDictFrom(bet_data, 1)

\* asset_type read least significant byte first
AssetType_little(payload) == from_bytes_little(SubSeq(payload, 7, 8))

AssetType(payload) == from_bytes_big(SubSeq(payload, 7, 8))

BlockHeight(payload) == from_bytes_big(SubSeq(payload, 3, 6))

parse_bhash_from_script(sh) ==
    LET rest == PySlice(sh, 2, Len(sh))
        push_len == int16(PySlice(rest, 0, 2))
        payload_hex_end == 2 + push_len.val * 2
        payload_bytes == fromhex(PySlice(rest, 2, payload_hex_end))
        payload == SubSeq(payload_bytes.bytes, 1, 40)
        bet_data == BetData(SubSeq(payload, 9, 40))
    IN  IF PySlice(sh, 0, 2) # <<"6", "a">> THEN None
        ELSE IF Len(rest) < 2 THEN None
        ELSE IF ~push_len.ok THEN None
        ELSE IF Len(rest) < payload_hex_end THEN None
        ELSE IF ~payload_bytes.ok THEN DecodeRaise
        ELSE IF Len(payload_bytes.bytes) < 40 THEN None
        ELSE IF payload_bytes.bytes[1] # 145 THEN None
        ELSE [kind |-> "record",
              magic |-> payload[1],
              content_type |-> payload[2],
              block_height |-> BlockHeight(payload),
              asset_type |-> AssetType(payload),
              bet_data |-> bet_data,
              bet_dict |-> BetDict(bet_data)]

----------------------------------------------------------------------------
(* main, from "Parsing transaction outputs" on: lines 188-222.             *)

NoResult == [kind |-> "unset"]

MainInit ==
    /\ tx \in TxInputs
    /\ tx_hex = TxHexOf(tx)
    /\ w = InitWalk
    /\ pc = "extract"
    /\ scripts = <<>>
    /\ idx = 0
    /\ found = FALSE
    /\ result = NoResult

Walking(at) == pc = "extract" /\ w.pc = at

idleVars == <<varintVars, decodeVars>>

mainRest == <<tx, tx_hex, pc, scripts, idx, found, result, idleVars>>

Version == Walking("version") /\ w' = StepVersion(tx_hex, w) /\ UNCHANGED mainRest
Marker == Walking("marker") /\ w' = StepMarker(tx_hex, w) /\ UNCHANGED mainRest
InputCount == Walking("input_count") /\ w' = StepInputCount(tx_hex, w) /\ UNCHANGED mainRest
InOutpoint == Walking("in_outpoint") /\ w' = StepInOutpoint(tx_hex, w) /\ UNCHANGED mainRest
InScriptLen == Walking("in_script_len") /\ w' = StepInScriptLen(tx_hex, w) /\ UNCHANGED mainRest
InScript == Walking("in_script") /\ w' = StepInScript(tx_hex, w) /\ UNCHANGED mainRest
InSequence == Walking("in_sequence") /\ w' = StepInSequence(tx_hex, w) /\ UNCHANGED mainRest
OutputCount == Walking("output_count") /\ w' = StepOutputCount(tx_hex, w) /\ UNCHANGED mainRest
OutValue == Walking("out_value") /\ w' = StepOutValue(tx_hex, w) /\ UNCHANGED mainRest
OutScriptLen == Walking("out_script_len") /\ w' = StepOutScriptLen(tx_hex, w) /\ UNCHANGED mainRest
OutScript == Walking("out_script") /\ w' = StepOutScript(tx_hex, w) /\ UNCHANGED mainRest
WitCount == Walking("wit_count") /\ w' = StepWitCount(tx_hex, w) /\ UNCHANGED mainRest
WitItemLen == Walking("wit_item_len") /\ w' = StepWitItemLen(tx_hex, w) /\ UNCHANGED mainRest
WitItem == Walking("wit_item") /\ w' = StepWitItem(tx_hex, w) /\ UNCHANGED mainRest

\* scripts = extract_vout_scripts(tx_hex) returned
Extracted ==
    /\ Walking("returned")
    /\ scripts' = w.scripts
    /\ pc' = "scan"
    /\ UNCHANGED <<tx, tx_hex, w, idx, found, result, idleVars>>

\* except Exception: print, return
ParseFailed ==
    /\ Walking("raised")
    /\ pc' = "parse_failed"
    /\ UNCHANGED <<tx, tx_hex, w, scripts, idx, found, result, idleVars>>

\* One iteration of the loop over enumerate(scripts).  An exception of
\* parse_bhash_from_script is caught nowhere: it ends main.
Scan ==
    /\ pc = "scan"
    /\ idx < Len(scripts)
    /\ result' = parse_bhash_from_script(scripts[idx + 1])
    /\ IF result'.kind = "raise"
        THEN pc' = "crashed" /\ UNCHANGED <<idx, found>>
        ELSE /\ pc' = "scan"
             /\ idx' = idx + 1
             /\ found' = (found \/ result'.kind = "record")
    /\ UNCHANGED <<tx, tx_hex, w, scripts, idleVars>>

\* The loop is exhausted: if not found: print, and main returns.
ScanEnd ==
    /\ pc = "scan"
    /\ idx = Len(scripts)
    /\ pc' = "done"
    /\ UNCHANGED <<tx, tx_hex, w, scripts, idx, found, result, idleVars>>

VarintIdle == vin = <<>> /\ hex_str = <<>> /\ offset = 0 /\ ret = <<>>
DecodeIdle == sin = <<>> /\ script_hex = <<>> /\ decoded = <<>>
MainIdle ==
    /\ tx = <<>> /\ tx_hex = <<>> /\ w = InitWalk /\ pc = "idle"
    /\ scripts = <<>> /\ idx = 0 /\ found = FALSE /\ result = NoResult

Init == MainInit /\ VarintIdle /\ DecodeIdle

Next ==
    \/ Version \/ Marker \/ InputCount
    \/ InOutpoint \/ InScriptLen \/ InScript \/ InSequence
    \/ OutputCount \/ OutValue \/ OutScriptLen \/ OutScript
    \/ WitCount \/ WitItemLen \/ WitItem
    \/ Extracted \/ ParseFailed \/ Scan \/ ScanEnd

Spec == Init /\ [][Next]_vars

----------------------------------------------------------------------------
(* Claims about extract_vout_scripts and main, checked under Spec.         *)

WalkEnded == w.pc \in {"returned", "raised"}

\* C1 (as claimed): a walk that returns has kept the cursor inside the
\* buffer, so no field it skipped or captured extended past the end, and the
\* last script it captured has its declared length.
C1_ReturnedWalkStayedInBuffer ==
    w.pc = "returned" =>
        /\ w.pos <= Len(tx_hex)
        /\ w.scripts # <<>> =>
               Len(w.scripts[Len(w.scripts)]) = 2 * w.script_len

\* C2 (as claimed): on every well-formed legacy transaction, whatever the
\* numbers of inputs and outputs, the walk returns exactly the outputs'
\* scripts in order.
C2_LegacyAnyCounts ==
    (tx.kind = "tx" /\ ~tx.segwit /\ WalkEnded) =>
        (w.pc = "returned" /\ w.scripts = tx.outs)

\* C2 (amended): on every well-formed legacy transaction other than the one
\* with no input and exactly one output (whose bytes 00 01 after the version
\* read as the segwit marker and flag), the walk returns exactly the
\* outputs' scripts in order.
C2_LegacyReturnsOutputs ==
    (tx.kind = "tx" /\ ~tx.segwit /\ WalkEnded
        /\ ~(tx.nin = 0 /\ Len(tx.outs) = 1)) =>
        (w.pc = "returned" /\ w.scripts = tx.outs)

C2_Witness ==
    /\ tx.kind = "tx" /\ ~tx.segwit /\ tx.nin = 2 /\ tx.sig # <<>>
    /\ tx.outs = <<BhashScript, OtherScript>>
    /\ w.pc = "returned" /\ w.scripts = tx.outs

LegacyOf(t) == [t EXCEPT !.segwit = FALSE]

\* C3 (as claimed): on every well-formed segwit transaction the walk returns
\* the list it returns on the legacy serialization of the same inputs and
\* outputs.
C3_SegwitSameAsLegacy ==
    (tx.kind = "tx" /\ tx.segwit /\ WalkEnded) =>
        LET legacy == extract_vout_scripts(Serialize(LegacyOf(tx)))
        IN  w.pc = "returned" /\ legacy.ok /\ w.scripts = legacy.scripts

\* C3 (amended): on every well-formed segwit transaction the walk returns
\* exactly the outputs' scripts, whatever the witness stacks are; that is
\* the list it returns on the legacy serialization of the same inputs and
\* outputs, unless there is no input and exactly one output.
C3_SegwitReturnsOutputs ==
    (tx.kind = "tx" /\ tx.segwit /\ WalkEnded) =>
        LET legacy == extract_vout_scripts(Serialize(LegacyOf(tx)))
        IN  /\ w.pc = "returned" /\ w.scripts = tx.outs
            /\ ~(tx.nin = 0 /\ Len(tx.outs) = 1) =>
                   (legacy.ok /\ w.scripts = legacy.scripts)

C3_Witness ==
    /\ tx.kind = "tx" /\ tx.segwit /\ tx.nin = 2 /\ Len(tx.stack) = 2
    /\ tx.outs = <<OtherScript, BhashScript>>
    /\ w.pc = "returned" /\ w.wi = 2 /\ w.it = 2
    /\ w.scripts = extract_vout_scripts(Serialize(LegacyOf(tx))).scripts

\* C9 (as claimed): when the scan over the returned list has ended, the
\* decoder has been applied to every script of the list: idx scripts were
\* decoded, and one more if the last application raised.
C9_ScanDecodesEveryOutput ==
    pc \in {"done", "crashed"} =>
        idx + (IF pc = "crashed" THEN 1 ELSE 0) = Len(scripts)

\* C10 (as claimed): no step of the walk decreases the cursor.
C10_CursorNeverDecreases == [][w'.pos >= w.pos]_vars

----------------------------------------------------------------------------
(* parse_varint called once, on a buffer holding pad bytes, a varint and    *)
(* tail bytes, with the last cut characters removed.                       *)

MaxPad == 1      \* bytes before the varint
MaxTail == 1     \* bytes after the varint

LowBytes == {0, 1, 255}

\* The encodings: a first byte and the bytes the prefix announces.  The
\* values stay below 2^31: the fourth byte is at most 0x7f and the upper
\* four bytes of an eight-byte value are 0.
Encodings ==
    { [first |-> f, payload |-> <<>>] : f \in {0, 1, 106, 252} }
    \cup { [first |-> 253, payload |-> <<a, b>>] : a \in LowBytes, b \in LowBytes }
    \cup { [first |-> 254, payload |-> <<a, b, c, d>>] :
             a \in LowBytes, b \in LowBytes, c \in LowBytes, d \in {0, 127} }
    \cup { [first |-> 255, payload |-> <<a, b, c, d, 0, 0, 0, 0>>] :
             a \in LowBytes, b \in LowBytes, c \in LowBytes, d \in {0, 127} }

VarintBytes(v) ==
    [k \in 1..v.pad |-> 171] \o <<v.first>> \o v.payload \o [k \in 1..v.tail |-> 1]

VarintInputs ==
    UNION { { [pad |-> p, first |-> e.first, payload |-> e.payload,
               tail |-> t, cut |-> c] :
                c \in 0..(2 * (1 + Len(e.payload) + t)) } :
            e \in Encodings, p \in 0..MaxPad, t \in 0..MaxTail }

VarintInit ==
    /\ vin \in VarintInputs
    /\ hex_str = SubSeq(HexOf(VarintBytes(vin)), 1,
                        2 * Len(VarintBytes(vin)) - vin.cut)
    /\ offset = 2 * vin.pad
    /\ ret = <<>>

CallParseVarint ==
    /\ pc = "idle"
    /\ vin # <<>>
    /\ ret = <<>>
    /\ ret' = <<parse_varint(hex_str, offset)>>
    /\ UNCHANGED <<vin, hex_str, offset, mainVars, decodeVars>>

InitVarint == VarintInit /\ MainIdle /\ DecodeIdle

SpecVarint == InitVarint /\ [][CallParseVarint]_vars

\* The buffer holds every byte of the varint at the offset.
VarintComplete == vin.cut <= 2 * vin.tail

RECURSIVE Pow256(_)
Pow256(k) == IF k = 0 THEN 1 ELSE 256 * Pow256(k - 1)

RECURSIVE SumTo(_, _)
SumTo(bs, k) ==
    IF k = 0 THEN 0
    ELSE (IF bs[k] = 0 THEN 0 ELSE bs[k] * Pow256(k - 1)) + SumTo(bs, k - 1)

\* The value a varint encodes: the first byte below 0xFD, else the bytes
\* that follow, least significant first.
VarintValue(v) == IF v.first < 253 THEN v.first ELSE SumTo(v.payload, Len(v.payload))

\* C7: on a buffer holding a complete varint at the offset, parse_varint
\* returns the encoded value and the offset advanced by two characters per
\* byte of the encoding: 1, 3, 5 or 9 bytes.
C7_VarintValueAndSize ==
    (Len(ret) = 1 /\ VarintComplete) =>
        /\ ret[1].ok
        /\ ret[1].val = VarintValue(vin)
        /\ ret[1].offset = offset + 2 * (1 + Len(vin.payload))
        /\ 1 + Len(vin.payload) =
              (IF vin.first < 253 THEN 1 ELSE IF vin.first = 253 THEN 3
               ELSE IF vin.first = 254 THEN 5 ELSE 9)

C7_Witness ==
    /\ Len(ret) = 1 /\ VarintComplete /\ vin.pad = 1 /\ vin.first = 255
    /\ vin.payload = <<255, 1, 255, 127, 0, 0, 0, 0>>
    /\ ret[1].ok /\ ret[1].val = 2147418623 /\ ret[1].offset = 20

\* C8 (as claimed): on a buffer that does not hold every byte of the varint
\* at the offset, parse_varint raises.
C8_TruncatedVarintRaises ==
    (Len(ret) = 1 /\ ~VarintComplete) => ~ret[1].ok

----------------------------------------------------------------------------
(* parse_bhash_from_script called once, on a script built from an opcode,  *)
(* a push length and a 40-byte record, possibly shortened, extended or     *)
(* with one character replaced by "z".                                     *)

MaxExtra == 1    \* payload bytes after the 40-byte record
MaxDrop == 1     \* characters removed from the end of the script

LE16(v) == <<v % 256, v \div 256>>

RecordBytes(r) ==
    <<r.magic, r.ctype>> \o r.height \o r.asset
        \o Concat([k \in 1..16 |-> LE16(r.bets[k])])

BetPatterns ==
    { [k \in 1..16 |-> 0],
      [k \in 1..16 |-> IF k = 1 THEN 10 ELSE 0],
      [k \in 1..16 |-> IF k = 2 THEN 256 ELSE IF k = 11 THEN 1
                       ELSE IF k = 16 THEN 65535 ELSE 0],
      [k \in 1..16 |-> k] }

PushLens == {<<"2", "8">>, <<"2", "7">>, <<"2", "9">>, <<"0", "0">>,
             <<"-", "2">>, <<"z", "z">>}

\* bad: the position of the character replaced by "z"; 0: none.  4: in the
\* push length, 5: first of the payload, 84: last of the record.
ScriptInputs ==
    { [op |-> o, plen |-> pl, magic |-> m, ctype |-> c, height |-> h,
       asset |-> a, bets |-> b, extra |-> x, drop |-> d, bad |-> z] :
        o \in {<<"6", "a">>, <<"7", "6">>}, pl \in PushLens, m \in {145, 144},
        c \in {2, 255}, h \in {<<0, 0, 0, 100>>, <<127, 2, 255, 4>>},
        a \in {<<0, 2>>, <<255, 1>>}, b \in BetPatterns,
        x \in 0..MaxExtra, d \in 0..MaxDrop, z \in {0, 4, 5, 84} }

ScriptHexOf(r) ==
    LET full == r.op \o r.plen \o HexOf(RecordBytes(r)) \o Repeat(<<"0", "7">>, r.extra)
        kept == SubSeq(full, 1, Len(full) - r.drop)
    IN  [k \in 1..Len(kept) |-> IF k = r.bad THEN "z" ELSE kept[k]]

DecodeInit ==
    /\ sin \in ScriptInputs
    /\ script_hex = ScriptHexOf(sin)
    /\ decoded = <<>>

CallParseBhash ==
    /\ pc = "idle"
    /\ sin # <<>>
    /\ decoded = <<>>
    /\ decoded' = <<parse_bhash_from_script(script_hex)>>
    /\ UNCHANGED <<sin, script_hex, mainVars, varintVars>>

InitDecode == DecodeInit /\ MainIdle /\ VarintIdle

SpecDecode == InitDecode /\ [][CallParseBhash]_vars

\* C4 (as claimed): parse_bhash_from_script returns a record or None on
\* every script; it never raises.
C4_DecoderNeverRaises ==
    Len(decoded) = 1 => decoded[1].kind \in {"record", "none"}

\* The script is 6a 28 91 and 39 more bytes, and nothing else.
ExactForm ==
    /\ sin.op = <<"6", "a">> /\ sin.plen = <<"2", "8">> /\ sin.magic = 145
    /\ sin.extra = 0 /\ sin.drop = 0 /\ sin.bad = 0

\* C5: a script 6a 28 91 followed by 39 bytes decodes to a record with
\* magic 0x91, content_type the payload's byte 1, block_height its bytes 2..5
\* most significant first, asset_type its bytes 6..7 most significant first,
\* and bet_data the 16 values of its bytes 8..39, least significant byte
\* first, in index order.
C5_RecordFields ==
    (Len(decoded) = 1 /\ ExactForm) =>
        /\ decoded[1].kind = "record"
        /\ decoded[1].magic = 145
        /\ decoded[1].content_type = sin.ctype
        /\ decoded[1].block_height =
              16777216 * sin.height[1] + 65536 * sin.height[2]
                  + 256 * sin.height[3] + sin.height[4]
        /\ decoded[1].asset_type = 256 * sin.asset[1] + sin.asset[2]
        /\ decoded[1].bet_data = sin.bets

C5_Witness ==
    /\ Len(decoded) = 1 /\ ExactForm
    /\ sin.height = <<127, 2, 255, 4>> /\ sin.asset = <<255, 1>>
    /\ sin.bets[16] = 65535
    /\ decoded[1].kind = "record"
    /\ decoded[1].block_height = 2130902788 /\ decoded[1].asset_type = 65281

RECURSIVE SumSeq(_, _)
SumSeq(q, k) == IF k = 0 THEN 0 ELSE q[k] + SumSeq(q, k - 1)

NonZero(bd) == {k \in 1..16 : bd[k] > 0}

\* C6: in every record returned, bet_dict has one entry per index i with
\* bet_data[i] > 0 and no other, keyed by the hex digit of i and holding
\* bet_data[i], in ascending index order; its values sum to the sum of
\* bet_data.
C6_BetDict ==
    (Len(decoded) = 1 /\ decoded[1].kind = "record") =>
        LET bd == decoded[1].bet_data
            dict == decoded[1].bet_dict
        IN  /\ Len(bd) = 16
            /\ Len(dict) = Cardinality(NonZero(bd))
            /\ \A k \in NonZero(bd) :
                   \E j \in 1..Len(dict) : dict[j] = <<hex_chars[k], bd[k]>>
            /\ \A j \in 1..Len(dict) :
                   /\ IsHexDigit(dict[j][1])
                   /\ HexVal(dict[j][1]) + 1 \in NonZero(bd)
                   /\ dict[j][2] = bd[HexVal(dict[j][1]) + 1]
            /\ \A j \in 1..Len(dict), l \in 1..Len(dict) :
                   j < l => HexVal(dict[j][1]) < HexVal(dict[l][1])
            /\ SumSeq([j \in 1..Len(dict) |-> dict[j][2]], Len(dict)) = SumSeq(bd, 16)

C6_Witness ==
    /\ Len(decoded) = 1 /\ decoded[1].kind = "record"
    /\ decoded[1].bet_dict = <<<<"1", 256>>, <<"a", 1>>, <<"f", 65535>>>>

====
